---- MODULE Spec2Model ----
(***************************************************************************)
(* Wi-Fi QR-code payload generator: the payload builder of src/lib.rs, the *)
(* older stand-alone builder of src/main.rs, and the file emission of      *)
(* Wifi::generate_image_file.                                              *)
(*                                                                         *)
(* A Rust String is a TLA+ string; the model uses only Len, SubSeq and \o  *)
(* on it.  An Option<T> is a sequence of length 0 (None) or 1 (Some).      *)
(***************************************************************************)
EXTENDS Integers, Sequences, FiniteSets, TLC

VARIABLES
    wifi,       \* the credential record (struct Wifi)
    fields,     \* Option: the Vec<Field> built by Wifi::fields
    payload,    \* Option: the String returned by Wifi::to_string of lib.rs
    stdout,     \* Option: the String printed by main of main.rs
    format,     \* Option<ImageFormat> argument of generate_image_file
    file_ext,   \* Option: the extension of the file_path argument
    pc,         \* position inside the operation under way
    saves,      \* number of save/write attempts made on file_path
    file,       \* Option: the format of the image written at file_path
    result,     \* Option: the Result returned by generate_image_file
    value,      \* the &str handed to Field::escape_field_value
    escaped,    \* Option: value after the five replace calls
    quoted      \* Option: the String returned by escape_field_value

vars == <<wifi, fields, payload, stdout, format, file_ext, pc, saves, file,
          result, value, escaped, quoted>>

-----------------------------------------------------------------------------
(* Bounds of the model *)

\* longest user-supplied string drawn for a string attribute
MaxStrLen == 2
\* longest public key, in bytes
MaxKeyLen == 3
\* longest input of the escaping function checked on its own
MaxValueLen == 3
\* capacity of the QR symbol, scaled down to the payload lengths of the model
MaxQrLen == 18

-----------------------------------------------------------------------------
(* Option and string helpers *)

None == <<>>
Some(x) == <<x>>
IsSome(o) == Len(o) = 1
Unwrap(o) == o[1]

Char(s, i) == SubSeq(s, i, i)
Rest(s) == IF Len(s) <= 1 THEN "" ELSE SubSeq(s, 2, Len(s))

RECURSIVE StringsUpTo(_, _)
StringsUpTo(alphabet, n) ==
    IF n = 0 THEN {""}
    ELSE LET shorter == StringsUpTo(alphabet, n - 1)
         IN  shorter \cup {s \o c : s \in shorter, c \in alphabet}

RECURSIVE SeqsUpTo(_, _)
SeqsUpTo(S, n) ==
    IF n = 0 THEN {<<>>}
    ELSE LET shorter == SeqsUpTo(S, n - 1)
         IN  shorter \cup {Append(s, b) : s \in shorter, b \in S}

-----------------------------------------------------------------------------
(* str::replace(char, &str): every occurrence, left to right *)

RECURSIVE replace(_, _, _)
replace(s, from, to) ==
    IF Len(s) = 0 THEN ""
    ELSE (IF Char(s, 1) = from THEN to ELSE Char(s, 1))
         \o replace(Rest(s), from, to)

(* Field::could_be_ascii_hex: the loop returns false at the first character
   outside "0123456789abcdef" and true when it runs off the end *)
HexDigits == "0123456789abcdef"

RECURSIVE str_contains(_, _)
str_contains(s, c) ==
    IF Len(s) = 0 THEN FALSE
    ELSE IF Char(s, 1) = c THEN TRUE
    ELSE str_contains(Rest(s), c)

\* variant: uppercase hex digits accepted as well
could_be_ascii_hex_uppercase(v) ==
    \A i \in 1..Len(v) : str_contains("0123456789abcdefABCDEF", Char(v, i))

RECURSIVE could_be_ascii_hex(_)
could_be_ascii_hex(v) ==
    IF Len(v) = 0 THEN TRUE
    ELSE IF ~str_contains(HexDigits, Char(v, 1)) THEN FALSE
    ELSE could_be_ascii_hex(Rest(v))

(* the five replace calls of Field::escape_field_value *)
\* variant: the backslash escaped after the other four characters
escape_replacements_backslash_last(v) ==
    replace(replace(replace(replace(replace(v,
        ";", "\\;"), ",", "\\,"), "\"", "\\\""), ":", "\\:"), "\\", "\\\\")

\* variant: the field terminator left unescaped
escape_replacements_no_semicolon(v) ==
    replace(replace(replace(replace(v,
        "\\", "\\\\"), ",", "\\,"), "\"", "\\\""), ":", "\\:")

escape_replacements(v) ==
    replace(replace(replace(replace(replace(v,
        "\\", "\\\\"), ";", "\\;"), ",", "\\,"), "\"", "\\\""), ":", "\\:")

(* Field::escape_field_value *)
escape_field_value(v) ==
    LET e == escape_replacements(v)
    IN  IF could_be_ascii_hex(e) THEN "\"" \o e \o "\"" ELSE e

-----------------------------------------------------------------------------
(* struct Field and its constructors *)

\* format!("{b:x}"): lowercase hexadecimal, no padding
hex_byte(b) ==
    IF b < 16 THEN Char(HexDigits, b + 1)
    ELSE Char(HexDigits, (b \div 16) + 1) \o Char(HexDigits, (b % 16) + 1)

RECURSIVE hex_bytes(_)
hex_bytes(bytes) ==
    IF Len(bytes) = 0 THEN ""
    ELSE hex_byte(Head(bytes)) \o hex_bytes(Tail(bytes))

\* base64::engine::general_purpose::STANDARD.encode: RFC 4648, padded
B64Alphabet ==
    "ABCDEFGHIJKLMNOPQRSTUVWXYZabcdefghijklmnopqrstuvwxyz0123456789+/"
B64Char(n) == Char(B64Alphabet, n + 1)

RECURSIVE base64_encode(_)
base64_encode(b) ==
    IF Len(b) = 0 THEN ""
    ELSE IF Len(b) = 1 THEN
        B64Char(b[1] \div 4) \o B64Char((b[1] % 4) * 16) \o "=="
    ELSE IF Len(b) = 2 THEN
        B64Char(b[1] \div 4) \o B64Char((b[1] % 4) * 16 + (b[2] \div 16))
        \o B64Char((b[2] % 16) * 4) \o "="
    ELSE
        B64Char(b[1] \div 4) \o B64Char((b[1] % 4) * 16 + (b[2] \div 16))
        \o B64Char((b[2] % 16) * 4 + (b[3] \div 64)) \o B64Char(b[3] % 64)
        \o base64_encode(SubSeq(b, 4, Len(b)))

Field_new_string(name, v) == [name |-> name, value |-> escape_field_value(v)]

Field_new_base64(name, bytes) == [name |-> name, value |-> base64_encode(bytes)]

Field_new_hex(name, bytes) == [name |-> name, value |-> hex_bytes(bytes)]

\* impl Display for Field
Field_fmt(f) == f.name \o ":" \o f.value \o ";"

-----------------------------------------------------------------------------
(* the enums and their add_fields *)

WifiMethods == {"NoPass", "Wep", "Wpa", "Wpa2Enterprise", "Wpa3"}
EapMethods == {"Peap", "Tls", "Ttls", "Pwd", "Sim", "Aka", "AkaPrime"}
Phase2s == {"MsChap", "MsChapV2", "Pap", "Gtc", "Sim", "Aka", "AkaPrime"}

WifiMethod_name(kind) ==
    CASE kind = "NoPass" -> "nopass"
      [] kind = "Wep" -> "WEP"
      [] kind \in {"Wpa", "Wpa3"} -> "WPA"
      [] kind = "Wpa2Enterprise" -> "WPA2-EAP"

\* variant: Wpa3 as a kind string of its own, without the R field
WifiMethod_add_fields_wpa3_as_kind(kind, fs) ==
    Append(fs, Field_new_string("T",
        IF kind = "Wpa3" THEN "WPA3" ELSE WifiMethod_name(kind)))

WifiMethod_add_fields(kind, fs) ==
    LET pushed == Append(fs, Field_new_string("T", WifiMethod_name(kind)))
    IN  IF kind = "Wpa3" THEN Append(pushed, Field_new_hex("R", <<1>>))
        ELSE pushed

EapMethod_add_fields(eap, fs) ==
    LET eap_name ==
        CASE eap = "Peap" -> "PEAP"
          [] eap = "Tls" -> "TLS"
          [] eap = "Ttls" -> "TTLS"
          [] eap = "Pwd" -> "PWD"
          [] eap = "Sim" -> "SIM"
          [] eap = "Aka" -> "AKA"
          [] eap = "AkaPrime" -> "AKA_PRIME"
    IN  Append(fs, Field_new_string("E", eap_name))

Phase2_add_fields(ph2, fs) ==
    LET ph2_name ==
        CASE ph2 = "MsChap" -> "MSCHAP"
          [] ph2 = "MsChapV2" -> "MSCHAPV2"
          [] ph2 = "Gtc" -> "GTC"
          [] ph2 = "Sim" -> "SIM"
          [] ph2 = "Aka" -> "AKA"
          [] ph2 = "AkaPrime" -> "AKA_PRIME"
          [] ph2 = "Pap" -> "PAP"
    IN  Append(fs, Field_new_string("PH2", ph2_name))

-----------------------------------------------------------------------------
(* struct Wifi: constructor, builder methods, fields, to_string *)

Wifi_new(ssid) ==
    [ssid |-> ssid, kind |-> None, hidden |-> FALSE, eap_method |-> None,
     phase2 |-> None, anonymous_identity |-> None, identity |-> None,
     password |-> None, public_key |-> None]

with_method(w, wifi_method) == [w EXCEPT !.kind = wifi_method]
with_hidden(w, hidden) == [w EXCEPT !.hidden = hidden]
with_eap_method(w, eap) == [w EXCEPT !.eap_method = eap]
with_phase2(w, ph2) == [w EXCEPT !.phase2 = ph2]
with_anonymous_identity(w, anon) == [w EXCEPT !.anonymous_identity = anon]
with_identity(w, id) == [w EXCEPT !.identity = id]
with_password(w, pw) == [w EXCEPT !.password = pw]
with_public_key(w, pk) == [w EXCEPT !.public_key = pk]

\* variant: the password pushed before the identity
Wifi_fields_password_before_identity(w) ==
    LET f1 == IF IsSome(w.kind) THEN WifiMethod_add_fields(Unwrap(w.kind), <<>>)
              ELSE <<>>
        f2 == Append(f1, Field_new_string("S", w.ssid))
        f3 == IF w.hidden THEN Append(f2, Field_new_string("H", "true")) ELSE f2
        f4 == IF IsSome(w.eap_method)
              THEN EapMethod_add_fields(Unwrap(w.eap_method), f3) ELSE f3
        f5 == IF IsSome(w.phase2)
              THEN Phase2_add_fields(Unwrap(w.phase2), f4) ELSE f4
        f6 == IF IsSome(w.anonymous_identity)
              THEN Append(f5, Field_new_string("A", Unwrap(w.anonymous_identity)))
              ELSE f5
        f7 == IF IsSome(w.password)
              THEN Append(f6, Field_new_string("P", Unwrap(w.password))) ELSE f6
        f8 == IF IsSome(w.identity)
              THEN Append(f7, Field_new_string("I", Unwrap(w.identity))) ELSE f7
    IN  IF IsSome(w.public_key)
        THEN Append(f8, Field_new_base64("K", Unwrap(w.public_key))) ELSE f8

Wifi_fields(w) ==
    LET f1 == IF IsSome(w.kind) THEN WifiMethod_add_fields(Unwrap(w.kind), <<>>)
              ELSE <<>>
        f2 == Append(f1, Field_new_string("S", w.ssid))
        f3 == IF w.hidden THEN Append(f2, Field_new_string("H", "true")) ELSE f2
        f4 == IF IsSome(w.eap_method)
              THEN EapMethod_add_fields(Unwrap(w.eap_method), f3) ELSE f3
        f5 == IF IsSome(w.phase2)
              THEN Phase2_add_fields(Unwrap(w.phase2), f4) ELSE f4
        f6 == IF IsSome(w.anonymous_identity)
              THEN Append(f5, Field_new_string("A", Unwrap(w.anonymous_identity)))
              ELSE f5
        f7 == IF IsSome(w.identity)
              THEN Append(f6, Field_new_string("I", Unwrap(w.identity))) ELSE f6
        f8 == IF IsSome(w.password)
              THEN Append(f7, Field_new_string("P", Unwrap(w.password))) ELSE f7
    IN  IF IsSome(w.public_key)
        THEN Append(f8, Field_new_base64("K", Unwrap(w.public_key))) ELSE f8

\* Iterator::collect::<String>() over the rendered fields
RECURSIVE collect(_)
collect(fs) ==
    IF Len(fs) = 0 THEN "" ELSE Field_fmt(Head(fs)) \o collect(Tail(fs))

\* variant: the final ";" left out
Wifi_to_string_no_terminator(w) == "WIFI:" \o collect(Wifi_fields(w))

\* impl ToString for Wifi (lib.rs)
Wifi_to_string(w) == "WIFI:" \o collect(Wifi_fields(w)) \o ";"

-----------------------------------------------------------------------------
(* main.rs: its own escaping helpers and its own impl ToString for Wifi.
   Its struct Wifi has a mandatory kind and no public key. *)

RECURSIVE main_could_be_ascii_hex(_)
main_could_be_ascii_hex(v) ==
    IF Len(v) = 0 THEN TRUE
    ELSE IF ~str_contains("0123456789abcdef", Char(v, 1)) THEN FALSE
    ELSE main_could_be_ascii_hex(Rest(v))

main_escape_field_value(v) ==
    LET e == replace(replace(replace(replace(replace(v,
                 "\\", "\\\\"), ";", "\\;"), ",", "\\,"), "\"", "\\\""),
                 ":", "\\:")
    IN  IF main_could_be_ascii_hex(e) THEN "\"" \o e \o "\"" ELSE e

main_to_string(w) ==
    LET kind ==
            CASE w.kind = "NoPass" -> "nopass"
              [] w.kind = "Wep" -> "WEP"
              [] w.kind = "Wpa" -> "WPA"
              [] w.kind = "Wpa2" -> "WPA2"
              [] w.kind = "Wpa2Enterprise" -> "WPA2-EAP"
              [] w.kind = "Wpa3" -> "WPA3"
        ssid == main_escape_field_value(w.ssid)
        hidden == IF w.hidden THEN "H:true;" ELSE ""
        eap ==
            IF IsSome(w.eap_method) THEN
                LET e == Unwrap(w.eap_method)
                    eap_name ==
                        CASE e = "Peap" -> "PEAP"
                          [] e = "Tls" -> "TLS"
                          [] e = "Ttls" -> "TTLS"
                          [] e = "Pwd" -> "PWD"
                          [] e = "Sim" -> "SIM"
                          [] e = "Aka" -> "AKA"
                          [] e = "AkaPrime" -> "AKA_PRIME"
                IN  "E:" \o eap_name \o ";"
            ELSE ""
        phase2 ==
            IF IsSome(w.phase2) THEN
                LET p == Unwrap(w.phase2)
                    ph2_name ==
                        CASE p = "MsChap" -> "MSCHAP"
                          [] p = "MsChapV2" -> "MSCHAPV2"
                          [] p = "Gtc" -> "GTC"
                          [] p = "Sim" -> "SIM"
                          [] p = "Aka" -> "AKA"
                          [] p = "AkaPrime" -> "AKA_PRIME"
                          [] p = "Pap" -> "PAP"
                IN  "PH2:" \o ph2_name \o ";"
            ELSE ""
        anon ==
            IF IsSome(w.anonymous_identity)
            THEN "A:" \o main_escape_field_value(Unwrap(w.anonymous_identity)) \o ";"
            ELSE ""
        ident ==
            IF IsSome(w.identity)
            THEN "I:" \o main_escape_field_value(Unwrap(w.identity)) \o ";"
            ELSE ""
        password ==
            IF IsSome(w.password)
            THEN "P:" \o main_escape_field_value(Unwrap(w.password)) \o ";"
            ELSE ""
    IN  "WIFI:T:" \o kind \o ";S:" \o ssid \o ";" \o hidden \o eap \o phase2
        \o anon \o ident \o password \o ";;"

\* the credentials both structs can hold, and the CLI's record of one
CliExpressible(w) == IsSome(w.kind) /\ ~IsSome(w.public_key)

CliWifi(w) ==
    [ssid |-> w.ssid, kind |-> Unwrap(w.kind), hidden |-> w.hidden,
     password |-> w.password, eap_method |-> w.eap_method,
     phase2 |-> w.phase2, identity |-> w.identity,
     anonymous_identity |-> w.anonymous_identity]

-----------------------------------------------------------------------------
(* Inputs *)

Option(S) == {None} \cup {Some(x) : x \in S}

\* characters of user-supplied strings: the escape character, the field
\* terminator and a lowercase hex digit
StrAlphabet == {"\\", ";", "a"}
Strings == StringsUpTo(StrAlphabet, MaxStrLen)

\* characters of the escaping function's inputs: the five escaped characters,
\* a lowercase hex digit, an uppercase hex digit and a non-hex letter
ValueAlphabet == {"\\", ";", ",", "\"", ":", "a", "A", "g"}
Values == StringsUpTo(ValueAlphabet, MaxValueLen)

KeyBytes == {0, 1, 255}
Keys == SeqsUpTo(KeyBytes, MaxKeyLen)

\* every combination of the enums and of which attributes are present
EnumCredentials ==
    { with_public_key(with_password(with_identity(with_anonymous_identity(
        with_phase2(with_eap_method(with_hidden(with_method(Wifi_new("Guest"),
        kind), hidden), eap), ph2), anon), ident), pw), pk) :
        kind \in Option(WifiMethods), hidden \in BOOLEAN,
        eap \in Option(EapMethods), ph2 \in Option(Phase2s),
        anon \in Option({"anon;"}), ident \in Option({"user"}),
        pw \in Option({"secret"}), pk \in Option({<<1>>}) }

\* every ssid, alone or with one more user-supplied string
StringCredentials ==
    LET base == { with_method(Wifi_new(ssid), kind) :
                    ssid \in Strings, kind \in {None, Some("Wpa")} }
    IN  base
        \cup { with_anonymous_identity(w, Some(s)) : w \in base, s \in Strings }
        \cup { with_identity(w, Some(s)) : w \in base, s \in Strings }
        \cup { with_password(w, Some(s)) : w \in base, s \in Strings }

\* every public key
KeyCredentials ==
    { with_public_key(with_method(Wifi_new("Corp"), kind), Some(pk)) :
        kind \in {None, Some("Wpa3")}, pk \in Keys }

\* the credentials of the documented examples
ExampleCredentials ==
    { with_password(with_method(Wifi_new("MyNet"), Some("Wpa")), Some("secret")),
      with_hidden(with_method(Wifi_new("Guest"), Some("NoPass")), TRUE),
      with_method(Wifi_new("Corp"), Some("Wpa3")),
      Wifi_new("a;b") }

Credentials ==
    EnumCredentials \cup StringCredentials \cup KeyCredentials
    \cup ExampleCredentials

-----------------------------------------------------------------------------
(* Payload specification: a credential is constructed, then rendered by the
   library (Wifi::to_string of lib.rs) and by the command line (main.rs) *)

Init ==
    /\ wifi \in Credentials
    /\ fields = None /\ payload = None /\ stdout = None
    /\ format = None /\ file_ext = None
    /\ pc = "constructed" /\ saves = 0 /\ file = None /\ result = None
    /\ value = "" /\ escaped = None /\ quoted = None

\* wifi.to_string() of lib.rs
LibToString ==
    /\ pc = "constructed"
    /\ payload = None
    /\ fields' = Some(Wifi_fields(wifi))
    /\ payload' = Some(Wifi_to_string(wifi))
    /\ UNCHANGED <<wifi, stdout, format, file_ext, pc, saves, file, result,
                   value, escaped, quoted>>

\* QrCode::new(data): Err(QrError::DataTooLong) when the data does not fit
\* the largest symbol
QrCode_new(data) == Len(data) <= MaxQrLen

\* ImageFormat::from_path of the image crate, by extension
image_format_from_extension(ext) ==
    IF ext = Some("png") THEN Some("Png")
    ELSE IF ext \in {Some("jpg"), Some("jpeg")} THEN Some("Jpeg")
    ELSE None

\* main of main.rs, lines 8-10: the struct parsed from the arguments is
\* rendered and printed.  The two programs share no state; the model runs the
\* command line after the library call.
MainPrint ==
    /\ pc = "constructed"
    /\ payload # None
    /\ CliExpressible(wifi)
    /\ stdout' = Some(main_to_string(CliWifi(wifi)))
    /\ pc' = "printed"
    /\ UNCHANGED <<wifi, fields, payload, format, file_ext, saves, file,
                   result, value, escaped, quoted>>

\* main, line 11: QrCode::new(wifi_string).unwrap()
MainQrCode ==
    /\ pc = "printed"
    /\ IF QrCode_new(Unwrap(stdout))
       THEN pc' = "main_rendered" /\ UNCHANGED result
       ELSE pc' = "exited" /\ result' = Some(<<"panic", "QrError">>)
    /\ UNCHANGED <<wifi, fields, payload, stdout, format, file_ext, saves,
                   file, value, escaped, quoted>>

\* main, lines 12-20: image.save("./wifi-<ssid>[-<identity>].png").unwrap()
MainSave ==
    /\ pc = "main_rendered"
    /\ saves' = saves + 1
    /\ pc' = "exited"
    /\ \E io_ok \in BOOLEAN :
          IF io_ok
          THEN /\ file' = image_format_from_extension(Some("png"))
               /\ result' = Some(<<"Ok">>)
          ELSE /\ file' \in {None, Some("incomplete")}
               /\ result' = Some(<<"panic", "ImageError">>)
    /\ UNCHANGED <<wifi, fields, payload, stdout, format, file_ext, value,
                   escaped, quoted>>

Next == LibToString \/ MainPrint \/ MainQrCode \/ MainSave

Spec == Init /\ [][Next]_vars

-----------------------------------------------------------------------------
(* Escaping specification: Field::escape_field_value on every input *)

InitEscape ==
    /\ value \in Values
    /\ escaped = None /\ quoted = None
    /\ wifi = Wifi_new("")
    /\ fields = None /\ payload = None /\ stdout = None
    /\ format = None /\ file_ext = None
    /\ pc = "escape" /\ saves = 0 /\ file = None /\ result = None

EscapeFieldValue ==
    /\ pc = "escape"
    /\ escaped = None
    /\ escaped' = Some(escape_replacements(value))
    /\ quoted' = Some(escape_field_value(value))
    /\ UNCHANGED <<wifi, fields, payload, stdout, format, file_ext, pc, saves,
                   file, result, value>>

NextEscape == EscapeFieldValue

SpecEscape == InitEscape /\ [][NextEscape]_vars

-----------------------------------------------------------------------------
(* Image specification: Wifi::generate_image_file(format, file_path) *)

FeatureQoi == TRUE

ExplicitFormats == {"Png", "Jpeg", "Qoi"}
Extensions == {"png", "jpg", "qoi", "txt"}

\* the outcomes of a write of the encoded image to file_path
WriteOutcomes(fmt, error) ==
    {[result |-> <<"Ok">>, file |-> Some(fmt)]}
    \cup {[result |-> error, file |-> f] : f \in {None, Some("incomplete")}}

\* Image::save
Image_save(fmt) ==
    IF fmt = "Qoi" THEN WriteOutcomes("Qoi", <<"Io">>)
    ELSE WriteOutcomes(fmt, <<"ImageError", "IoError">>)

\* ImageBuffer::save(path): the format comes from the extension
ImageBuffer_save(ext) ==
    LET guessed == image_format_from_extension(ext)
    IN  IF guessed = None
        THEN {[result |-> <<"ImageError", "Unsupported">>, file |-> None]}
        ELSE WriteOutcomes(Unwrap(guessed), <<"ImageError", "IoError">>)

\* Image::save_guess_format
Image_save_guess_format(ext) ==
    IF FeatureQoi /\ ext = Some("qoi") THEN Image_save("Qoi")
    ELSE ImageBuffer_save(ext)

ImageCredentials ==
    { with_method(Wifi_new(ssid), Some("Wep")) : ssid \in Strings }

InitImage ==
    /\ wifi \in ImageCredentials
    /\ format \in Option(ExplicitFormats)
    /\ file_ext \in Option(Extensions)
    /\ fields = None /\ payload = None /\ stdout = None
    /\ pc = "call" /\ saves = 0 /\ file = None /\ result = None
    /\ value = "" /\ escaped = None /\ quoted = None

\* variant: the QR error dropped instead of returned
GenerateQrCode_ignoring_error ==
    /\ pc = "call"
    /\ fields' = Some(Wifi_fields(wifi))
    /\ payload' = Some(Wifi_to_string(wifi))
    /\ pc' = "rendered"
    /\ UNCHANGED <<wifi, stdout, format, file_ext, saves, file, result, value,
                   escaped, quoted>>

\* generate_image_file, line 227: QrCode::new(self.to_string())?
GenerateQrCode ==
    /\ pc = "call"
    /\ fields' = Some(Wifi_fields(wifi))
    /\ payload' = Some(Wifi_to_string(wifi))
    /\ IF QrCode_new(Wifi_to_string(wifi))
       THEN pc' = "rendered" /\ UNCHANGED result
       ELSE pc' = "returned" /\ result' = Some(<<"QrError", "DataTooLong">>)
    /\ UNCHANGED <<wifi, stdout, format, file_ext, saves, file, value,
                   escaped, quoted>>

\* generate_image_file, lines 229-236: render, then save by format
GenerateSave ==
    /\ pc = "rendered"
    /\ saves' = saves + 1
    /\ pc' = "returned"
    /\ \E o \in (IF IsSome(format) THEN Image_save(Unwrap(format))
                 ELSE Image_save_guess_format(file_ext)) :
          /\ result' = Some(o.result)
          /\ file' = o.file
    /\ UNCHANGED <<wifi, fields, payload, stdout, format, file_ext, value,
                   escaped, quoted>>

NextImage == GenerateQrCode \/ GenerateSave

SpecImage == InitImage /\ [][NextImage]_vars

-----------------------------------------------------------------------------
(* Properties *)

Names(fs) == [i \in 1..Len(fs) |-> fs[i].name]

FieldOrder == <<"T", "R", "S", "H", "E", "PH2", "A", "I", "P", "K">>

Present(w, n) ==
    CASE n = "T" -> IsSome(w.kind)
      [] n = "R" -> w.kind = Some("Wpa3")
      [] n = "S" -> TRUE
      [] n = "H" -> w.hidden
      [] n = "E" -> IsSome(w.eap_method)
      [] n = "PH2" -> IsSome(w.phase2)
      [] n = "A" -> IsSome(w.anonymous_identity)
      [] n = "I" -> IsSome(w.identity)
      [] n = "P" -> IsSome(w.password)
      [] n = "K" -> IsSome(w.public_key)

\* the length of "WIFI:" and of the first k rendered fields
RECURSIVE Offset(_, _)
Offset(fs, k) ==
    IF k = 0 THEN 5
    ELSE Offset(fs, k - 1) + Len(fs[k].name) + Len(fs[k].value) + 2

\* the number of consecutive backslashes that end right before position i
RECURSIVE BackslashesBefore(_, _)
BackslashesBefore(p, i) ==
    IF i > 1 /\ Char(p, i - 1) = "\\" THEN 1 + BackslashesBefore(p, i - 1)
    ELSE 0

UnescapedSemicolons(p) ==
    {i \in 1..Len(p) : Char(p, i) = ";" /\ BackslashesBefore(p, i) % 2 = 0}

\* str::replace(&str, &str) for a two-character pattern
RECURSIVE replace_pair(_, _, _)
replace_pair(s, from, to) ==
    IF Len(s) < 2 THEN s
    ELSE IF SubSeq(s, 1, 2) = from
         THEN to \o replace_pair(IF Len(s) = 2 THEN "" ELSE SubSeq(s, 3, Len(s)),
                                 from, to)
         ELSE Char(s, 1) \o replace_pair(Rest(s), from, to)

\* the reverse substitutions, undone in the reverse order
Unescape(e) ==
    replace_pair(replace_pair(replace_pair(replace_pair(replace_pair(e,
        "\\:", ":"), "\\\"", "\""), "\\,", ","), "\\;", ";"), "\\\\", "\\")

\* C1: the names of the fields built by Wifi::fields are the fixed list
\* T, R, S, H, E, PH2, A, I, P, K restricted to the fields whose source is
\* present, so no name is repeated and no two names change their order; the
\* Guest example renders as documented.
C1_FieldOrder ==
    IsSome(fields) =>
        /\ Names(Unwrap(fields))
             = SelectSeq(FieldOrder, LAMBDA n : Present(wifi, n))
        /\ (wifi = with_hidden(with_method(Wifi_new("Guest"), Some("NoPass")),
                               TRUE)
              => payload = Some("WIFI:T:nopass;S:Guest;H:true;;"))

C1_Witness ==
    /\ IsSome(fields)
    /\ Names(Unwrap(fields)) = FieldOrder

\* C2: the payload is "WIFI:", then every field as NAME:VALUE; in emission
\* order, then one ";": it starts with "WIFI:", has at least one field and
\* ends with ";;" right after the last value; the MyNet example renders as
\* documented.
C2_PayloadShape ==
    (IsSome(payload) /\ IsSome(fields)) =>
        LET p == Unwrap(payload)
            fs == Unwrap(fields)
            n == Len(fs)
        IN  /\ n >= 1
            /\ Len(p) = Offset(fs, n) + 1
            /\ SubSeq(p, 1, 5) = "WIFI:"
            /\ \A i \in 1..n :
                  SubSeq(p, Offset(fs, i - 1) + 1, Offset(fs, i))
                    = fs[i].name \o ":" \o fs[i].value \o ";"
            /\ SubSeq(p, Len(p) - 1, Len(p)) = ";;"
            /\ (wifi = with_password(with_method(Wifi_new("MyNet"), Some("Wpa")),
                                     Some("secret"))
                  => p = "WIFI:T:WPA;S:MyNet;P:secret;;")

C2_Witness ==
    payload = Some("WIFI:T:WPA;S:MyNet;P:secret;;")

\* C3: the kind alone decides the first fields: T:nopass; T:WEP; T:WPA; (Wpa
\* and Wpa3) or T:WPA2-EAP;, the value neither escaped nor quoted, followed
\* by R:1; exactly when the kind is Wpa3; the Corp example renders as
\* documented.
C3_KindMapping ==
    (IsSome(payload) /\ IsSome(fields) /\ IsSome(wifi.kind)) =>
        LET fs == Unwrap(fields)
            kind == Unwrap(wifi.kind)
            t == CASE kind = "NoPass" -> "nopass"
                   [] kind = "Wep" -> "WEP"
                   [] kind = "Wpa" -> "WPA"
                   [] kind = "Wpa3" -> "WPA"
                   [] kind = "Wpa2Enterprise" -> "WPA2-EAP"
        IN  /\ fs[1] = [name |-> "T", value |-> t]
            /\ (kind = "Wpa3") <=> (fs[2] = [name |-> "R", value |-> "1"])
            /\ (kind # "Wpa3") => (\A i \in 1..Len(fs) : fs[i].name # "R")
            /\ LET head == "WIFI:T:" \o t \o ";"
                          \o (IF kind = "Wpa3" THEN "R:1;" ELSE "") \o "S:"
               IN  SubSeq(Unwrap(payload), 1, Len(head)) = head
            /\ (wifi = with_method(Wifi_new("Corp"), Some("Wpa3"))
                  => payload = Some("WIFI:T:WPA;R:1;S:Corp;;"))

C3_Witness ==
    payload = Some("WIFI:T:WPA;R:1;S:Corp;;")

\* C4: undoing the five substitutions of the escaping step, in the reverse
\* order, gives back the input.
C4_EscapeRoundTrip ==
    IsSome(escaped) => Unescape(Unwrap(escaped)) = value

C4_Witness ==
    /\ value = "\\;:"
    /\ escaped = Some("\\\\\\;\\:")

\* C5: escape_field_value returns the escaped string inside one pair of
\* double quotes exactly when each of its characters is one of
\* 0123456789abcdef (the empty string included), and the escaped string
\* itself otherwise.
C5_Quoting ==
    (IsSome(escaped) /\ IsSome(quoted)) =>
        LET e == Unwrap(escaped)
            q == Unwrap(quoted)
            hex == {Char("0123456789abcdef", k) : k \in 1..16}
            all_hex == \A i \in 1..Len(e) : Char(e, i) \in hex
        IN  /\ all_hex => (q = "\"" \o e \o "\"" /\ Len(q) = Len(e) + 2)
            /\ ~all_hex => q = e
            /\ (value = "" => q = "\"\"")

C5_Witness ==
    /\ value = ""
    /\ quoted = Some("\"\"")

\* C6: no field of the payload has an empty value.
C6_NoEmptyValue ==
    IsSome(fields) =>
        \A i \in 1..Len(Unwrap(fields)) : Len(Unwrap(fields)[i].value) > 0

\* C7: a failed QR generation returns QrError with nothing saved and nothing
\* written; a save is attempted only after QR generation succeeded, at most
\* once, and nothing happens after the call has returned.
C7_QrFailureWritesNothing ==
    /\ (IsSome(payload) /\ ~QrCode_new(Unwrap(payload)))
          => /\ result = Some(<<"QrError", "DataTooLong">>)
             /\ pc = "returned"
    /\ (IsSome(result) /\ Unwrap(result)[1] = "QrError")
          => (saves = 0 /\ file = None)
    /\ (saves > 0 \/ file # None)
          => (IsSome(payload) /\ QrCode_new(Unwrap(payload)))
    /\ saves <= 1
    /\ IsSome(result) => (pc = "returned" /\ ~ENABLED NextImage)

C7_Witness ==
    /\ result = Some(<<"QrError", "DataTooLong">>)
    /\ pc = "returned"
    /\ Len(Unwrap(payload)) > MaxQrLen

\* C8: an explicit format is the format of the saved file whatever the
\* extension; without one the format is inferred from the extension, and an
\* unrecognized or absent extension saves in the default format instead of
\* failing.
C8_FormatDispatch ==
    (pc = "returned" /\ saves = 1) =>
        /\ (IsSome(format) /\ result = Some(<<"Ok">>)) => file = format
        /\ format = None =>
              /\ result # Some(<<"ImageError", "Unsupported">>)
              /\ result = Some(<<"Ok">>) =>
                    file = CASE file_ext = Some("png") -> Some("Png")
                             [] file_ext = Some("jpg") -> Some("Jpeg")
                             [] file_ext = Some("qoi") -> Some("Qoi")
                             [] OTHER -> Some("Png")

\* C9: the string the command line prints is the string the library builds
\* for the same credential.
C9_CliPrintsLibraryPayload ==
    (IsSome(stdout) /\ IsSome(payload)) => stdout = payload

\* C10: the unescaped ";" of the payload are exactly the terminators of the
\* emitted fields and the final ";": there are as many as fields plus one,
\* and cutting the payload there gives back the fields.
C10_NoFieldInjection ==
    (IsSome(payload) /\ IsSome(fields)) =>
        LET p == Unwrap(payload)
            fs == Unwrap(fields)
            cuts == UnescapedSemicolons(p)
        IN  /\ Cardinality(cuts) = Len(fs) + 1
            /\ cuts = {Offset(fs, i) : i \in 1..Len(fs)} \cup {Len(p)}

C10_Witness ==
    /\ wifi.ssid = "\\;"
    /\ wifi.password = Some(";\\")
    /\ payload = Some("WIFI:T:WPA;S:\\\\\\;;P:\\;\\\\;;")

====
